---- MODULE Spec2Model ----
(***************************************************************************)
(* Daily Viewer (Obsidian plugin), src/main.ts.                            *)
(*                                                                         *)
(* The model has three parts:                                              *)
(*   - the date matcher: moment(basename, format) in non-strict mode, its  *)
(*     validity check and format(), over strings written as sequences of   *)
(*     one-character strings;                                              *)
(*   - the filter and the sort of DailyViewerView.refresh;                 *)
(*   - the view: onOpen, refresh (with its two suspension points per       *)
(*     document), the reload button, the settings handlers, onClose.       *)
(*                                                                         *)
(* Patterns are built from the moment tokens YYYY, YY, MM, M, DD, D and    *)
(* literal separator characters; basenames are arbitrary strings.          *)
(***************************************************************************)
EXTENDS Integers, Sequences, FiniteSets, TLC

VARIABLES
    matchIn,      \* matcher harness: the (basename, pattern, now) under test
    matchOut,     \* matcher harness: what the filter callback computed
    sortIn,       \* sorter harness: the (listing, pattern, sortOrder, now) under test
    sortOut,      \* sorter harness: the dateFiles array the filter+sort produced
    files,        \* app.vault.getFiles(), the markdown documents in listing order
    settings,     \* the settings object shared by plugin, settings tab and view
    now,          \* the current date moment() falls back on
    view,         \* lifecycle position of the view instance
    pluginView,   \* this.plugin.view is set
    componentLoaded, \* the view's Component has not been unloaded
    hasHeader,    \* the container holds the daily-viewer-header element
    attached,     \* ids of the daily-viewer-content elements in the container
    regions,      \* children of every daily-viewer-content element ever created
    inv,          \* the refresh invocations started so far
    pendingSave,  \* settings handlers suspended at saveSettings
    leaves,       \* the workspace leaves created so far
    active,       \* the leaf last revealed, 0 for none
    act           \* the activateView invocations started so far

vars == <<matchIn, matchOut, sortIn, sortOut, files, settings, now,
          view, pluginView, componentLoaded, hasHeader, attached, regions, inv,
          pendingSave, leaves, active, act>>

matchVars == <<matchIn, matchOut>>
sortVars == <<sortIn, sortOut>>
viewVars == <<files, settings, now, view, pluginView, componentLoaded,
              hasHeader, attached, regions, inv, pendingSave>>
leafVars == <<leaves, active, act>>

(***************************************************************************)
(* Strings                                                                 *)
(***************************************************************************)
Digits == <<"0", "1", "2", "3", "4", "5", "6", "7", "8", "9">>

IsDigit(c) == \E i \in 1..Len(Digits) : Digits[i] = c

DigitVal(c) == (CHOOSE i \in 1..Len(Digits) : Digits[i] = c) - 1

RECURSIVE toInt(_)
toInt(s) ==
    IF s = <<>> THEN 0
    ELSE toInt(SubSeq(s, 1, Len(s) - 1)) * 10 + DigitVal(s[Len(s)])

RECURSIVE Decimal(_)
Decimal(n) ==
    IF n < 10 THEN <<Digits[n + 1]>>
    ELSE Decimal(n \div 10) \o <<Digits[(n % 10) + 1]>>

PadLeft(d, targetLength) ==
    IF Len(d) >= targetLength THEN d
    ELSE [i \in 1..(targetLength - Len(d)) |-> "0"] \o d

\* moment's zeroFill(number, targetLength) for a non-negative number
zeroFill(n, targetLength) == PadLeft(Decimal(n), targetLength)

\* index of the first element of s satisfying IsDigit, 0 when there is none
FirstDigit(s) ==
    IF \E i \in 1..Len(s) : IsDigit(s[i])
    THEN CHOOSE i \in 1..Len(s) :
            IsDigit(s[i]) /\ \A j \in 1..(i - 1) : ~IsDigit(s[j])
    ELSE 0

\* String.prototype.indexOf for a one-character needle, 1-based, 0 when absent
IndexOf(s, c) ==
    IF \E i \in 1..Len(s) : s[i] = c
    THEN CHOOSE i \in 1..Len(s) : s[i] = c /\ \A j \in 1..(i - 1) : s[j] # c
    ELSE 0

\* length of the digit run a greedy \d{1,max} matches at position p
DigitRun(s, p, max) ==
    CHOOSE n \in 1..max :
        /\ p + n - 1 <= Len(s)
        /\ \A j \in p..(p + n - 1) : IsDigit(s[j])
        /\ (n = max \/ p + n > Len(s) \/ ~IsDigit(s[p + n]))

InvalidDate == <<"I", "n", "v", "a", "l", "i", "d", " ", "d", "a", "t", "e">>

(***************************************************************************)
(* moment: format tokens                                                   *)
(***************************************************************************)
YYYY == <<"Y", "Y", "Y", "Y">>
YY == <<"Y", "Y">>
MM == <<"M", "M">>
M1 == <<"M">>
DD == <<"D", "D">>
D1 == <<"D">>

DateTokens == {YYYY, YY, MM, M1, DD, D1}

RunLen(f, c) ==
    CHOOSE n \in 1..Len(f) :
        /\ \A j \in 1..n : f[j] = c
        /\ (n = Len(f) \/ f[n + 1] # c)

\* the longest alternative of formattingTokens that starts with character c
\* when c is repeated n times: YYYY, YY, MM, M, DD, D, or the character
TokenLen(c, n) ==
    IF c = "Y" THEN (IF n >= 4 THEN 4 ELSE IF n >= 2 THEN 2 ELSE 1)
    ELSE IF c \in {"M", "D"} THEN (IF n >= 2 THEN 2 ELSE 1)
    ELSE 1

RECURSIVE Tokenize(_)

CutToken(f, take) ==
    <<SubSeq(f, 1, take)>> \o Tokenize(SubSeq(f, take + 1, Len(f)))

\* format.match(formattingTokens): the longest token alternative at each
\* position, any other character a token of its own
Tokenize(f) ==
    IF f = <<>> THEN <<>>
    ELSE CutToken(f, TokenLen(f[1], RunLen(f, f[1])))

(***************************************************************************)
(* moment: calendar                                                        *)
(***************************************************************************)
isLeapYear(y) == (y % 4 = 0 /\ y % 100 # 0) \/ y % 400 = 0

\* month is 0-based, as in moment's array
daysInMonth(y, m) ==
    IF m = 1 THEN (IF isLeapYear(y) THEN 29 ELSE 28)
    ELSE 31 - ((m % 7) % 2)

RECURSIVE DaysBeforeMonth(_, _)
DaysBeforeMonth(y, m) ==
    IF m = 0 THEN 0 ELSE DaysBeforeMonth(y, m - 1) + daysInMonth(y, m - 1)

\* leap years in 0 .. y-1
LeapsBefore(y) == ((y + 3) \div 4) - ((y + 99) \div 100) + ((y + 399) \div 400)

\* days from 0000-01-01 to the date of a valid moment
DayNumber(mt) == 365 * mt.Y + LeapsBefore(mt.Y) + DaysBeforeMonth(mt.Y, mt.M) + (mt.D - 1)

\* a.diff(b) for two valid moments. moment measures it in milliseconds; the
\* patterns here carry no time of day, so it is counted in whole days, which
\* has the same sign and the same zeros.
diff(a, b) == DayNumber(a) - DayNumber(b)

(***************************************************************************)
(* moment(string, format): non-strict parsing                              *)
(***************************************************************************)
parseTwoDigitYear(v) == v + (IF v > 68 THEN 1900 ELSE 2000)

ParseStart(s) ==
    [rest |-> s, hasY |-> FALSE, Y |-> 0, hasM |-> FALSE, M |-> 0,
     hasD |-> FALSE, D |-> 0, empty |-> TRUE]

\* addParseToken: the callbacks of YYYY, YY, M/MM and D/DD
StoreField(st, tok, n, v) ==
    IF tok = YYYY
    THEN [st EXCEPT !.hasY = TRUE, !.Y = IF n = 2 THEN parseTwoDigitYear(v) ELSE v]
    ELSE IF tok = YY
    THEN [st EXCEPT !.hasY = TRUE, !.Y = parseTwoDigitYear(v)]
    ELSE IF tok \in {MM, M1}
    THEN [st EXCEPT !.hasM = TRUE, !.M = v - 1]
    ELSE [st EXCEPT !.hasD = TRUE, !.D = v]

\* parsedInput is the n digits at p: the input before it is skipped, the
\* rest is kept for the next token
TakeDigits(st, tok, p, n) ==
    StoreField([st EXCEPT !.rest = SubSeq(st.rest, p + n, Len(st.rest)),
                          !.empty = FALSE],
               tok, n, toInt(SubSeq(st.rest, p, p + n - 1)))

\* a date token: \d{1,4} for YYYY, \d\d? for the others, anywhere in the rest
ParseDateToken(st, tok, p) ==
    IF p = 0 THEN st
    ELSE TakeDigits(st, tok, p, DigitRun(st.rest, p, IF tok = YYYY THEN 4 ELSE 2))

\* any other character of the format: searched in the rest, skipped if found
ParseLiteral(st, p) ==
    IF p = 0 THEN st
    ELSE [st EXCEPT !.rest = SubSeq(st.rest, p + 1, Len(st.rest))]

\* one round of the token loop of configFromStringAndFormat
ParseToken(st, tok) ==
    IF tok \in DateTokens
    THEN ParseDateToken(st, tok, FirstDigit(st.rest))
    ELSE ParseLiteral(st, IndexOf(st.rest, tok[1]))

RECURSIVE ParseTokens(_, _)
ParseTokens(st, toks) ==
    IF toks = <<>> THEN st
    ELSE ParseTokens(ParseToken(st, toks[1]), Tail(toks))

\* configFromArray: the fields the input did not give come from today as
\* far as no larger field was given, and are the first month or day otherwise
configFromArray(st, today) ==
    [empty |-> st.empty,
     Y |-> IF st.hasY THEN st.Y ELSE today.Y,
     M |-> IF st.hasM THEN st.M
           ELSE IF ~st.hasY THEN today.M ELSE 0,
     D |-> IF st.hasD THEN st.D
           ELSE IF ~st.hasY /\ ~st.hasM THEN today.D ELSE 1]

\* checkOverflow with isValid not reading the empty flag
checkOverflowIgnoreEmpty(c) ==
    [valid |-> /\ c.M >= 0 /\ c.M <= 11
               /\ c.D >= 1 /\ c.D <= daysInMonth(c.Y, c.M),
     Y |-> c.Y, M |-> c.M, D |-> c.D]

\* checkOverflow and the flags isValid reads
checkOverflow(c) ==
    [valid |-> /\ ~c.empty
               /\ c.M >= 0 /\ c.M <= 11
               /\ c.D >= 1 /\ c.D <= daysInMonth(c.Y, c.M),
     Y |-> c.Y, M |-> c.M, D |-> c.D]

\* moment(s, f) in non-strict mode, today being the current date
moment(s, f, today) ==
    checkOverflow(configFromArray(ParseTokens(ParseStart(s), Tokenize(f)), today))

isValid(mt) == mt.valid

FormatToken(mt, tok) ==
    IF tok = YYYY THEN zeroFill(mt.Y, 4)
    ELSE IF tok = YY THEN zeroFill(mt.Y % 100, 2)
    ELSE IF tok = MM THEN zeroFill(mt.M + 1, 2)
    ELSE IF tok = M1 THEN Decimal(mt.M + 1)
    ELSE IF tok = DD THEN zeroFill(mt.D, 2)
    ELSE IF tok = D1 THEN Decimal(mt.D)
    ELSE tok

RECURSIVE FormatTokens(_, _)
FormatTokens(mt, toks) ==
    IF toks = <<>> THEN <<>>
    ELSE FormatToken(mt, toks[1]) \o FormatTokens(mt, Tail(toks))

\* moment.prototype.format(f)
format(mt, f) ==
    IF ~isValid(mt) THEN InvalidDate ELSE FormatTokens(mt, Tokenize(f))

(***************************************************************************)
(* Documents                                                               *)
(***************************************************************************)
Docs == {"d1", "d2", "d3", "d4", "d5", "d6", "d7"}

\* TFile.basename; d2 and d4 are two notes of the same name in two folders
Basename ==
    [d \in Docs |->
        CASE d = "d1" -> <<"2", "0", "2", "3", "-", "0", "3", "-", "0", "1">>
          [] d = "d2" -> <<"2", "0", "2", "3", "-", "0", "1", "-", "1", "0">>
          [] d = "d3" -> <<"2", "0", "2", "3", "-", "0", "2", "-", "2", "0">>
          [] d = "d4" -> <<"2", "0", "2", "3", "-", "0", "1", "-", "1", "0">>
          [] d = "d5" -> <<"n", "o", "t", "e", "s">>
          [] d = "d6" -> <<"2", "3", "-", "0", "3", "-", "0", "2">>
          [] d = "d7" -> <<"-", "-">>]

DefaultDateFormat == <<"Y", "Y", "Y", "Y", "-", "M", "M", "-", "D", "D">>
ShortYearFormat == <<"Y", "Y", "-", "M", "M", "-", "D", "D">>

\* a pattern without a date token; d7 is a note of that very name
MalformedFormat == <<"-", "-">>

DEFAULT_SETTINGS == [sortOrder |-> "new-to-old", dateFormat |-> DefaultDateFormat]

SortOrders == {"new-to-old", "old-to-new"}

\* values of "now" for the fields a pattern leaves out (month 0-based)
Nows == {[Y |-> 2024, M |-> 1, D |-> 29], [Y |-> 2025, M |-> 10, D |-> 3]}

(***************************************************************************)
(* refresh: the filter callback and the sort comparator                    *)
(***************************************************************************)
\* const isValid = parsed.isValid() && parsed.format(dateFormat) === file.basename
RoundTrip(parsed, f, b) == isValid(parsed) /\ format(parsed, f) = b

\* the filter callback without its second conjunct
IsDateFileNoRoundTrip(b, f, today) == isValid(moment(b, f, today))

\* files.filter(file => { try { ... } catch { return false } })
IsDateFile(b, f, today) == RoundTrip(moment(b, f, today), f, b)

FilterFiles(listing, cfg, today) ==
    SelectSeq(listing, LAMBDA d : IsDateFile(Basename[d], cfg.dateFormat, today))

\* the two returns of the comparator
Direction(dateA, dateB, sortOrder) ==
    IF sortOrder = "old-to-new" THEN diff(dateA, dateB) ELSE diff(dateB, dateA)

\* the comparator with the two branches exchanged
CompareSwapped(a, b, cfg, today) ==
    Direction(moment(Basename[b], cfg.dateFormat, today),
              moment(Basename[a], cfg.dateFormat, today), cfg.sortOrder)

\* the comparator without its sortOrder branch
CompareNewestFirst(a, b, cfg, today) ==
    diff(moment(Basename[b], cfg.dateFormat, today),
         moment(Basename[a], cfg.dateFormat, today))

\* .sort((a, b) => ...)'s comparator
Compare(a, b, cfg, today) ==
    Direction(moment(Basename[a], cfg.dateFormat, today),
              moment(Basename[b], cfg.dateFormat, today), cfg.sortOrder)

InsertAt(s, x, k) == SubSeq(s, 1, k) \o <<x>> \o SubSeq(s, k + 1, Len(s))

\* an insertion that puts x before the elements it compares equal to
InsertBeforeEqual(s, x, cfg, today) ==
    InsertAt(s, x, Cardinality({i \in 1..Len(s) : Compare(s[i], x, cfg, today) < 0}))

\* x, which followed every element of the sorted s in the input, goes behind
\* the elements that do not compare greater than it
InsertStable(s, x, cfg, today) ==
    InsertAt(s, x, Cardinality({i \in 1..Len(s) : Compare(s[i], x, cfg, today) <= 0}))

\* Array.prototype.sort: a stable sort by the comparator
RECURSIVE SortFiles(_, _, _)
SortFiles(s, cfg, today) ==
    IF s = <<>> THEN <<>>
    ELSE InsertStable(SortFiles(SubSeq(s, 1, Len(s) - 1), cfg, today),
                      s[Len(s)], cfg, today)

\* const dateFiles = files.filter(...).sort(...)
DateFiles(listing, cfg, today) == SortFiles(FilterFiles(listing, cfg, today), cfg, today)

(***************************************************************************)
(* Harness of the filter callback: one (basename, pattern, now) per run    *)
(***************************************************************************)
MaxBaseLen == 4

Alphabet == {"0", "1", "2", "3", "-", "x"}

RECURSIVE StrsOfLen(_)
StrsOfLen(n) ==
    IF n = 0 THEN {<<>>}
    ELSE {Append(s, c) : s \in StrsOfLen(n - 1), c \in Alphabet}

ShortBasenames == UNION {StrsOfLen(n) : n \in 0..MaxBaseLen}

ShortPatterns ==
    {<<"M", "-", "D">>, <<"M", "M", "D", "D">>, <<"M", "-", "D", "D">>,
     <<"D", "D">>, <<"D">>, <<"Y", "Y">>, <<"Y", "Y", "Y", "Y">>,
     <<"Y", "Y", "M", "M">>, <<"-", "-">>}

LongBasenames ==
    {Basename[d] : d \in Docs} \cup
    {<<"2", "0", "2", "4", "-", "0", "1", "-", "0", "5">>,
     <<"2", "0", "2", "4", "-", "1", "-", "5">>,
     <<"2", "0", "2", "4", "-", "0", "1", "-", "0", "5", "-", "e", "x", "t", "r", "a">>,
     <<"2", "0", "2", "3", "-", "0", "2", "-", "2", "9">>,
     <<"2", "0", "2", "4", "-", "0", "2", "-", "2", "9">>,
     <<"2", "0", "2", "4", "-", "1", "3", "-", "0", "1">>,
     <<"6", "9", "-", "1", "2", "-", "3", "1">>}

LongPatterns == {DefaultDateFormat, ShortYearFormat}

MatchInputs ==
    {[b |-> b, p |-> p, now |-> t] : b \in ShortBasenames, p \in ShortPatterns, t \in Nows}
    \cup
    {[b |-> b, p |-> p, now |-> t] : b \in LongBasenames, p \in LongPatterns, t \in Nows}

\* the notes of the vault the view is opened on, and one created later
InitFiles == <<"d5", "d1", "d6", "d7">>
LaterDocs == {"d2"}

\* the day the view is used
Today == [Y |-> 2024, M |-> 1, D |-> 29]

MatchIdle == [pc |-> "idle", valid |-> FALSE, text |-> <<>>, keep |-> FALSE]

\* the state of the view before it is constructed
ViewInit ==
    /\ files = InitFiles
    /\ settings = DEFAULT_SETTINGS
    /\ view = "unopened"
    /\ pluginView = FALSE
    /\ componentLoaded = TRUE
    /\ hasHeader = FALSE
    /\ attached = <<>>
    /\ regions = <<>>
    /\ inv = <<>>
    /\ pendingSave = 0
    /\ leaves = <<>>
    /\ active = 0
    /\ act = <<>>

InitMatch ==
    /\ matchIn \in MatchInputs
    /\ matchOut = MatchIdle
    /\ sortIn = [listing |-> <<>>, cfg |-> DEFAULT_SETTINGS, now |-> matchIn.now]
    /\ sortOut = [pc |-> "idle", files |-> <<>>]
    /\ now = matchIn.now
    /\ ViewInit

\* what the callback computes from parsed
CallbackValues(parsed, b, f, keep) ==
    [pc |-> "done", valid |-> isValid(parsed), text |-> format(parsed, f), keep |-> keep]

\* the filter callback applied to one file: parsed, its validity, the
\* reformatted text, and the value the callback returns
FilterCallback ==
    /\ matchOut.pc = "idle"
    /\ matchOut' = CallbackValues(moment(matchIn.b, matchIn.p, matchIn.now),
                                  matchIn.b, matchIn.p,
                                  IsDateFile(matchIn.b, matchIn.p, matchIn.now))
    /\ UNCHANGED <<matchIn, sortVars, viewVars, leafVars>>

NextMatch == FilterCallback

SpecMatch == InitMatch /\ [][NextMatch]_vars

(***************************************************************************)
(* Harness of filter and sort: one (listing, settings, now) per run        *)
(***************************************************************************)
MaxListing == 3

RECURSIVE ListingsOfLen(_)
ListingsOfLen(n) ==
    IF n = 0 THEN {<<>>}
    ELSE {Append(s, d) : s \in ListingsOfLen(n - 1), d \in Docs} 

NoRepeat(s) == \A i, j \in 1..Len(s) : i # j => s[i] # s[j]

\* a vault lists every file once
Listings == {s \in UNION {ListingsOfLen(n) : n \in 0..MaxListing} : NoRepeat(s)}

InitSort ==
    /\ sortIn \in {[listing |-> l, cfg |-> [sortOrder |-> o, dateFormat |-> f], now |-> t] :
                      l \in Listings, o \in SortOrders, f \in LongPatterns, t \in Nows}
    /\ sortOut = [pc |-> "idle", files |-> <<>>]
    /\ matchIn = [b |-> <<>>, p |-> sortIn.cfg.dateFormat, now |-> sortIn.now]
    /\ matchOut = MatchIdle
    /\ now = sortIn.now
    /\ ViewInit

\* const dateFiles = files.filter(...).sort(...) on the harness input
FilterAndSort ==
    /\ sortOut.pc = "idle"
    /\ sortOut' = [pc |-> "done",
                   files |-> DateFiles(sortIn.listing, sortIn.cfg, sortIn.now)]
    /\ UNCHANGED <<sortIn, matchVars, viewVars, leafVars>>

NextSort == FilterAndSort

SpecSort == InitSort /\ [][NextSort]_vars

(***************************************************************************)
(* The view                                                                *)
(***************************************************************************)
MaxRefreshes == 2

\* the listings and the settings the view can meet, and for each what
\* refresh computes from them (evaluated once, then looked up)
ViewListings ==
    {InitFiles} \cup {Append(InitFiles, d) : d \in LaterDocs}

\* the patterns typed into the settings tab
ViewPatterns == LongPatterns \cup {MalformedFormat}

ViewSettings == [sortOrder : SortOrders, dateFormat : ViewPatterns]

ViewDateFiles ==
    [l \in ViewListings |-> [c \in ViewSettings |-> DateFiles(l, c, Today)]]

ViewHeader ==
    [d \in Docs |-> [f \in ViewPatterns |->
        format(moment(Basename[d], f, Today), f)]]

InFlight(r) == r.pc \in {"read", "render"}

\* fileContainer with its h2 header, as the loop body creates it before the
\* first await; the header text is computed from the settings of that moment
NewRegion(doc, k) ==
    [doc |-> doc,
     header |-> ViewHeader[doc][settings.dateFormat],
     by |-> k,
     stage |-> "header"]

SetStage(regs, target, k, doc, stage) ==
    [regs EXCEPT ![target] =
        [p \in DOMAIN @ |->
            IF @[p].by = k /\ @[p].doc = doc THEN [@[p] EXCEPT !.stage = stage]
            ELSE @[p]]]

\* the documents shown in the container's content region
Shown ==
    IF attached = <<>> THEN <<>>
    ELSE [p \in DOMAIN regions[attached[1]] |-> regions[attached[1]][p].doc]

\* the invocations in flight when another refresh starts overlap with it
MarkOverlapped ==
    [j \in DOMAIN inv |->
        IF InFlight(inv[j]) THEN [inv[j] EXCEPT !.overlapped = TRUE] ELSE inv[j]]

\* what refresh computes before its loop, and where its first await leaves it
InvocationOf(target, caller, dateFiles) ==
    [pc |-> IF dateFiles = <<>> THEN "done" ELSE "read",
     target |-> target,
     dateFiles |-> dateFiles,
     i |-> IF dateFiles = <<>> THEN 0 ELSE 1,
     listing |-> files,
     cfg |-> settings,
     overlapped |-> \E j \in DOMAIN inv : InFlight(inv[j]),
     caller |-> caller,
     result |-> <<>>]

Invocation(target, caller) ==
    InvocationOf(target, caller, ViewDateFiles[files][settings])

\* the first round of the loop up to "await this.app.vault.read(file)"
FirstRegionsOf(dateFiles) ==
    IF dateFiles = <<>> THEN <<>>
    ELSE <<NewRegion(dateFiles[1], Len(inv) + 1)>>

FirstRegions == FirstRegionsOf(ViewDateFiles[files][settings])

\* the content element refresh works on: the one found, or a new one
Target(att) == IF att = <<>> THEN Len(regions) + 1 ELSE att[1]

\* refresh that creates a content element without looking for one
StartRefreshAlwaysCreate(att, caller) ==
    /\ attached' = Append(att, Len(regions) + 1)
    /\ regions' = Append(regions, FirstRegions)
    /\ inv' = MarkOverlapped \o <<Invocation(Len(regions) + 1, caller)>>

\* refresh without contentContainer.empty()
StartRefreshNoEmpty(att, caller) ==
    /\ attached' = IF att = <<>> THEN <<Target(att)>> ELSE att
    /\ regions' = [(IF att = <<>> THEN Append(regions, <<>>) ELSE regions)
                      EXCEPT ![Target(att)] = @ \o FirstRegions]
    /\ inv' = MarkOverlapped \o <<Invocation(Target(att), caller)>>

\* refresh() up to its first await, called with att the content elements
\* the container holds at the call: find or create, empty, filter, sort, and
\* the first round of the loop
StartRefresh(att, caller) ==
    /\ attached' = IF att = <<>> THEN <<Target(att)>> ELSE att
    /\ regions' = [(IF att = <<>> THEN Append(regions, <<>>) ELSE regions)
                      EXCEPT ![Target(att)] = FirstRegions]
    /\ inv' = MarkOverlapped \o <<Invocation(Target(att), caller)>>

Capacity == Len(inv) + pendingSave < MaxRefreshes

\* the view factory of registerView, then onOpen up to the first await of
\* its refresh
OpenView ==
    /\ view = "unopened"
    /\ Capacity
    /\ view' = "opening"
    /\ pluginView' = TRUE
    /\ hasHeader' = TRUE
    /\ StartRefresh(<<>>, "onOpen")
    /\ UNCHANGED <<matchVars, sortVars, leafVars, files, settings, now,
                   componentLoaded, pendingSave>>

\* onOpen that does not await its refresh
OnOpenReturnNoAwait ==
    /\ view = "opening"
    /\ view' = "ready"
    /\ UNCHANGED <<matchVars, sortVars, leafVars, files, settings, now, pluginView,
                   componentLoaded, hasHeader, attached, regions, inv, pendingSave>>

\* onOpen resumes after "await this.refresh()"
OnOpenReturn ==
    /\ view = "opening"
    /\ \E k \in DOMAIN inv : inv[k].caller = "onOpen" /\ ~InFlight(inv[k])
    /\ view' = "ready"
    /\ UNCHANGED <<matchVars, sortVars, leafVars, files, settings, now, pluginView,
                   componentLoaded, hasHeader, attached, regions, inv, pendingSave>>

\* a loop that starts the next document when a read returns, without
\* awaiting the rendering of the current one
ReadDoneStartsNext(k) ==
    /\ inv[k].pc = "read"
    /\ LET r == inv[k]
           doc == r.dateFiles[r.i]
           read == SetStage(regions, r.target, k, doc, "markdown")
       IN  IF r.i < Len(r.dateFiles)
           THEN /\ regions' = [read EXCEPT ![r.target] =
                                  Append(@, NewRegion(r.dateFiles[r.i + 1], k))]
                /\ inv' = [inv EXCEPT ![k].i = r.i + 1]
           ELSE /\ regions' = read
                /\ inv' = [inv EXCEPT ![k].pc = "done", ![k].result = Shown]
    /\ UNCHANGED <<matchVars, sortVars, leafVars, files, settings, now, view,
                   pluginView, componentLoaded, hasHeader, attached, pendingSave>>

\* refresh resumes after "await this.app.vault.read(file)"
ReadDone(k) ==
    /\ inv[k].pc = "read"
    /\ LET r == inv[k]
           doc == r.dateFiles[r.i]
       IN  \/ /\ inv' = [inv EXCEPT ![k].pc = "render"]
              /\ regions' = SetStage(regions, r.target, k, doc, "markdown")
           \/ \* the read rejects: refresh has no catch, its promise rejects
              /\ inv' = [inv EXCEPT ![k].pc = "failed"]
              /\ UNCHANGED regions
    /\ UNCHANGED <<matchVars, sortVars, leafVars, files, settings, now, view,
                   pluginView, componentLoaded, hasHeader, attached, pendingSave>>

\* refresh resumes after "await MarkdownRenderer.renderMarkdown(...)": the
\* image and tag handlers, then the next round of the loop up to its await
RenderDone(k) ==
    /\ inv[k].pc = "render"
    /\ LET r == inv[k]
           doc == r.dateFiles[r.i]
           done == SetStage(regions, r.target, k, doc, "done")
       IN  IF r.i < Len(r.dateFiles)
           THEN /\ regions' = [done EXCEPT ![r.target] =
                                  Append(@, NewRegion(r.dateFiles[r.i + 1], k))]
                /\ inv' = [inv EXCEPT ![k].pc = "read", ![k].i = r.i + 1]
           ELSE /\ regions' = done
                /\ inv' = [inv EXCEPT ![k].pc = "done", ![k].result = Shown]
    /\ UNCHANGED <<matchVars, sortVars, leafVars, files, settings, now, view,
                   pluginView, componentLoaded, hasHeader, attached, pendingSave>>

\* a click listener that calls refresh without removing the content element
ClickReloadKeepRegion ==
    /\ view \in {"opening", "ready"}
    /\ hasHeader
    /\ Capacity
    /\ StartRefresh(attached, "click")
    /\ UNCHANGED <<matchVars, sortVars, leafVars, files, settings, now, view,
                   pluginView, componentLoaded, hasHeader, pendingSave>>

\* the click listener of the refresh button
ClickReload ==
    /\ view \in {"opening", "ready"}
    /\ hasHeader
    /\ Capacity
    /\ StartRefresh(IF attached = <<>> THEN <<>> ELSE Tail(attached), "click")
    /\ UNCHANGED <<matchVars, sortVars, leafVars, files, settings, now, view,
                   pluginView, componentLoaded, hasHeader, pendingSave>>

\* the dropdown's onChange up to "await this.plugin.saveSettings()"
ChangeSortOrder(value) ==
    /\ value # settings.sortOrder
    /\ Capacity
    /\ settings' = [settings EXCEPT !.sortOrder = value]
    /\ pendingSave' = pendingSave + 1
    /\ UNCHANGED <<matchVars, sortVars, leafVars, files, now, view, pluginView,
                   componentLoaded, hasHeader, attached, regions, inv>>

\* the text field's onChange up to "await this.plugin.saveSettings()"
ChangeDateFormat(value) ==
    /\ value # settings.dateFormat
    /\ Capacity
    /\ LET testDate == format([valid |-> TRUE, Y |-> now.Y, M |-> now.M, D |-> now.D],
                              value)
       IN  IF testDate # InvalidDate
           THEN /\ settings' = [settings EXCEPT !.dateFormat = value]
                /\ pendingSave' = pendingSave + 1
           ELSE UNCHANGED <<settings, pendingSave>>
    /\ UNCHANGED <<matchVars, sortVars, leafVars, files, now, view, pluginView,
                   componentLoaded, hasHeader, attached, regions, inv>>

\* a settings handler that returns after saveSettings
SaveDoneNoRefresh ==
    /\ pendingSave > 0
    /\ pendingSave' = pendingSave - 1
    /\ UNCHANGED <<matchVars, sortVars, leafVars, files, settings, now, view, pluginView,
                   componentLoaded, hasHeader, attached, regions, inv>>

\* a settings handler resumes after saveSettings: refresh when a view exists
SaveDone ==
    /\ pendingSave > 0
    /\ pendingSave' = pendingSave - 1
    /\ IF pluginView
       THEN StartRefresh(attached, "settings")
       ELSE UNCHANGED <<attached, regions, inv>>
    /\ UNCHANGED <<matchVars, sortVars, leafVars, files, settings, now, view,
                   pluginView, componentLoaded, hasHeader>>

\* onClose
CloseView ==
    /\ view = "ready"
    /\ view' = "closed"
    /\ componentLoaded' = FALSE
    /\ UNCHANGED <<matchVars, sortVars, leafVars, files, settings, now, pluginView,
                   hasHeader, attached, regions, inv, pendingSave>>

\* a note is created in the vault; getFiles lists it last
VaultChange ==
    /\ \E d \in LaterDocs :
            /\ \A p \in DOMAIN files : files[p] # d
            /\ files' = Append(files, d)
    /\ UNCHANGED <<matchVars, sortVars, leafVars, settings, now, view, pluginView,
                   componentLoaded, hasHeader, attached, regions, inv, pendingSave>>

Init ==
    /\ now = Today
    /\ ViewInit
    /\ matchIn = [b |-> <<>>, p |-> DefaultDateFormat, now |-> now]
    /\ matchOut = MatchIdle
    /\ sortIn = [listing |-> <<>>, cfg |-> DEFAULT_SETTINGS, now |-> now]
    /\ sortOut = [pc |-> "idle", files |-> <<>>]

Next ==
    \/ OpenView
    \/ OnOpenReturn
    \/ \E k \in DOMAIN inv : ReadDone(k)
    \/ \E k \in DOMAIN inv : RenderDone(k)
    \/ ClickReload
    \/ \E value \in SortOrders : ChangeSortOrder(value)
    \/ \E value \in ViewPatterns : ChangeDateFormat(value)
    \/ SaveDone
    \/ CloseView
    \/ VaultChange

Spec == Init /\ [][Next]_vars

(***************************************************************************)
(* activateView and the workspace                                          *)
(***************************************************************************)
MaxActivations == 3

VIEW_TYPE_DAILY == "daily-viewer-view"

\* workspace.getLeavesOfType(VIEW_TYPE_DAILY)
getLeavesOfType ==
    {l \in DOMAIN leaves : leaves[l].open /\ leaves[l].type = VIEW_TYPE_DAILY}

Min(S) == CHOOSE x \in S : \A y \in S : x <= y

WorkspaceIdle ==
    /\ matchIn = [b |-> <<>>, p |-> DefaultDateFormat, now |-> Today]
    /\ matchOut = MatchIdle
    /\ sortIn = [listing |-> <<>>, cfg |-> DEFAULT_SETTINGS, now |-> Today]
    /\ sortOut = [pc |-> "idle", files |-> <<>>]
    /\ now = Today
    /\ ViewInit

\* activateView, from the ribbon icon or the command, up to its await: a
\* leaf of the type is revealed at once; without one a leaf is made and
\* setViewState is called on it
ActivateView ==
    /\ Len(act) < MaxActivations
    /\ IF getLeavesOfType # {}
       THEN /\ active' = Min(getLeavesOfType)
            /\ act' = Append(act, [pc |-> "done", leaf |-> Min(getLeavesOfType),
                                  found |-> TRUE])
            /\ UNCHANGED leaves
       ELSE /\ leaves' = Append(leaves, [type |-> "empty", open |-> TRUE])
            /\ act' = Append(act, [pc |-> "setViewState", leaf |-> Len(leaves) + 1,
                                  found |-> FALSE])
            /\ UNCHANGED active
    /\ UNCHANGED <<matchVars, sortVars, viewVars>>

\* inside the awaited setViewState the workspace builds the view with the
\* factory of registerView and the leaf takes the view's type
LeafTakesView(a) ==
    /\ act[a].pc = "setViewState"
    /\ leaves[act[a].leaf].type = "empty"
    /\ leaves' = [leaves EXCEPT ![act[a].leaf].type = VIEW_TYPE_DAILY]
    /\ UNCHANGED <<active, act, matchVars, sortVars, viewVars>>

\* activateView resumes after "await leaf.setViewState(...)": revealLeaf
SetViewStateDone(a) ==
    /\ act[a].pc = "setViewState"
    /\ leaves[act[a].leaf].type = VIEW_TYPE_DAILY
    /\ act' = [act EXCEPT ![a].pc = "done"]
    /\ active' = act[a].leaf
    /\ UNCHANGED <<leaves, matchVars, sortVars, viewVars>>

\* the user closes a leaf that shows the view
DetachLeaf(l) ==
    /\ leaves[l].open
    /\ leaves[l].type = VIEW_TYPE_DAILY
    /\ \A a \in DOMAIN act : act[a].leaf = l => act[a].pc = "done"
    /\ leaves' = [leaves EXCEPT ![l].open = FALSE]
    /\ active' = IF active = l THEN 0 ELSE active
    /\ UNCHANGED <<act, matchVars, sortVars, viewVars>>

InitActivate == WorkspaceIdle

NextActivate ==
    \/ ActivateView
    \/ \E a \in DOMAIN act : LeafTakesView(a)
    \/ \E a \in DOMAIN act : SetViewStateDone(a)
    \/ \E l \in DOMAIN leaves : DetachLeaf(l)

SpecActivate == InitActivate /\ [][NextActivate]_vars

(***************************************************************************)
(* Properties of the filter callback (SpecMatch)                           *)
(***************************************************************************)

\* C1: a basename is retained exactly when it parses to a valid date under
\* the pattern and formatting that date with the pattern gives the basename
\* back; a failed parse gives "no match", a plain FALSE, never an error.
C1_RoundTripLaw ==
    matchOut.pc = "done" =>
        /\ matchOut.keep \in BOOLEAN
        /\ matchOut.keep <=> (matchOut.valid /\ matchOut.text = matchIn.b)
        /\ (matchOut.text = InvalidDate => ~matchOut.keep)

\* a basename that parses to a valid date and is rejected by the round trip
C1_Witness ==
    /\ matchOut.pc = "done"
    /\ matchOut.valid
    /\ matchOut.text # matchIn.b
    /\ ~matchOut.keep

(***************************************************************************)
(* Properties of the sort (SpecSort)                                       *)
(***************************************************************************)
SortDate(d) == moment(Basename[d], sortIn.cfg.dateFormat, sortIn.now)

\* calendar order, read from year, month and day
Earlier(a, b) ==
    \/ a.Y < b.Y
    \/ a.Y = b.Y /\ a.M < b.M
    \/ a.Y = b.Y /\ a.M = b.M /\ a.D < b.D

SameDay(a, b) == a.Y = b.Y /\ a.M = b.M /\ a.D = b.D

Range(s) == {s[i] : i \in DOMAIN s}

Reverse(s) == [i \in 1..Len(s) |-> s[Len(s) + 1 - i]]

Pos(s, x) == CHOOSE i \in DOMAIN s : s[i] = x

OtherOrder(cfg) ==
    [cfg EXCEPT !.sortOrder = IF @ = "old-to-new" THEN "new-to-old" ELSE "old-to-new"]

\* C7: the sorted documents are the matched documents, by calendar date:
\* earliest first for old-to-new, latest first for new-to-old; the dates
\* 2023-03-01, 2023-01-10, 2023-02-20 come out as 03-01, 02-20, 01-10
\* newest first and in the reverse order oldest first.
C7_SortedByDate ==
    sortOut.pc = "done" =>
        /\ Range(sortOut.files) =
             {d \in Range(sortIn.listing) :
                 LET m == SortDate(d)
                 IN  m.valid /\ format(m, sortIn.cfg.dateFormat) = Basename[d]}
        /\ Len(sortOut.files) = Cardinality(Range(sortOut.files))
        /\ \A i, j \in DOMAIN sortOut.files :
             i < j =>
                IF sortIn.cfg.sortOrder = "old-to-new"
                THEN ~Earlier(SortDate(sortOut.files[j]), SortDate(sortOut.files[i]))
                ELSE ~Earlier(SortDate(sortOut.files[i]), SortDate(sortOut.files[j]))
        /\ (sortIn.listing = <<"d1", "d2", "d3">> /\ sortIn.cfg.dateFormat = DefaultDateFormat) =>
             sortOut.files = IF sortIn.cfg.sortOrder = "new-to-old"
                             THEN <<"d1", "d3", "d2">>
                             ELSE <<"d2", "d3", "d1">>

C7_Witness ==
    /\ sortOut.pc = "done"
    /\ sortIn.listing = <<"d1", "d2", "d3">>
    /\ sortIn.cfg = DEFAULT_SETTINGS
    /\ sortOut.files = <<"d1", "d3", "d2">>

\* C8 as stated: the old-to-new result is the exact reverse of the
\* new-to-old result on the same listing.
C8_ExactReverse ==
    sortOut.pc = "done" =>
        sortOut.files =
            Reverse(DateFiles(sortIn.listing, OtherOrder(sortIn.cfg), sortIn.now))

\* C8 amended: the dates of the two results are the reverse of each other,
\* and the documents are when no two matched documents have the same date.
C8_ReverseUpToTies ==
    sortOut.pc = "done" =>
        LET other == DateFiles(sortIn.listing, OtherOrder(sortIn.cfg), sortIn.now)
            mine == sortOut.files
        IN  /\ Len(mine) = Len(other)
            /\ \A i \in DOMAIN mine :
                  SameDay(SortDate(mine[i]), SortDate(other[Len(other) + 1 - i]))
            /\ (\A i, j \in DOMAIN mine :
                    i # j => ~SameDay(SortDate(mine[i]), SortDate(mine[j])))
               => mine = Reverse(other)

\* two notes of one date and a later one, newest first
C8_Witness ==
    /\ sortOut.pc = "done"
    /\ sortIn.cfg.sortOrder = "new-to-old"
    /\ sortIn.listing = <<"d2", "d4", "d1">>
    /\ sortOut.files = <<"d1", "d2", "d4">>

\* C9: two matched documents of the same date keep the relative order they
\* have in the listing, in both directions.
C9_Stable ==
    sortOut.pc = "done" =>
        \A i, j \in DOMAIN sortOut.files :
            (i < j /\ SameDay(SortDate(sortOut.files[i]), SortDate(sortOut.files[j])))
            => Pos(sortIn.listing, sortOut.files[i]) < Pos(sortIn.listing, sortOut.files[j])

C9_Witness ==
    /\ sortOut.pc = "done"
    /\ sortIn.cfg.sortOrder = "old-to-new"
    /\ sortIn.listing = <<"d1", "d4", "d2">>
    /\ sortOut.files = <<"d4", "d2", "d1">>

(***************************************************************************)
(* Properties of the view (Spec)                                           *)
(***************************************************************************)
\* the round trip of a note's basename under a pattern, and its date
ViewRoundTrips ==
    [d \in Docs |-> [f \in ViewPatterns |->
        LET m == moment(Basename[d], f, Today)
        IN  m.valid /\ format(m, f) = Basename[d]]]

ViewDate == [d \in Docs |-> [f \in ViewPatterns |-> moment(Basename[d], f, Today)]]

\* the children of the content element the container holds
Content == IF attached = <<>> THEN <<>> ELSE regions[attached[1]]

Latest == Len(inv)

Settled == \A k \in DOMAIN inv : ~InFlight(inv[k])

\* the latest refresh has returned normally and ran alone from start to end
RanAlone(k) == k = Latest /\ inv[k].pc = "done" /\ ~inv[k].overlapped

\* C2 as stated: once a newer refresh has started, the content region holds
\* no region an older refresh added, and when every refresh has finished it
\* shows what the newest refresh alone produces.
C2_Supersedes ==
    /\ \A p \in DOMAIN Content : Content[p].by = Latest
    /\ (Settled /\ Latest >= 1 /\ inv[Latest].pc = "done") => Shown = inv[Latest].dateFiles

\* C3: a refresh that starts after the one before it has returned, on the
\* same listing and settings, leaves the documents the one before it left,
\* each once.
C3_Idempotent ==
    \A k \in DOMAIN inv :
        (/\ k > 1
         /\ RanAlone(k)
         /\ inv[k - 1].pc = "done"
         /\ ~inv[k - 1].overlapped
         /\ inv[k].listing = inv[k - 1].listing
         /\ inv[k].cfg = inv[k - 1].cfg)
        => /\ Shown = inv[k - 1].result
           /\ Len(Shown) = Cardinality(Range(Shown))
           /\ \A p \in DOMAIN Content : Content[p].by = k

\* the second refresh reuses the content element of the first
C3_Witness ==
    /\ Latest = 2
    /\ RanAlone(2)
    /\ inv[1].pc = "done"
    /\ ~inv[1].overlapped
    /\ inv[2].listing = inv[1].listing
    /\ inv[2].cfg = inv[1].cfg
    /\ inv[2].target = inv[1].target
    /\ Len(Shown) >= 2

\* C4: the container never holds two content elements, and holds one from
\* the start of the first refresh on.
C4_OneContentRegion ==
    /\ Len(attached) <= 1
    /\ Latest >= 1 => Len(attached) = 1

\* a reload click has removed the content element and refresh made another
C4_Witness ==
    /\ Latest >= 2
    /\ inv[Latest].caller = "click"
    /\ Len(regions) >= 2
    /\ Len(attached) = 1

\* C5 as stated: a failed fetch leaves no later document of the refresh
\* without its region, and the refresh does not fail.
C5_FetchFailureIsolated ==
    \A k \in DOMAIN inv :
        inv[k].pc = "failed" => inv[k].i = Len(inv[k].dateFiles)

\* C6: when a refresh that ran alone has returned, the content region holds
\* one region for each document of the listing read at its start whose
\* basename round-trips under the pattern read at its start, in date order
\* of the direction read at its start, all rendered by this refresh.
C6_Synchronized ==
    \A k \in DOMAIN inv :
        RanAlone(k) =>
            LET r == inv[k]
                f == r.cfg.dateFormat
            IN  /\ attached = <<r.target>>
                /\ Range(Shown) = {d \in Range(r.listing) : ViewRoundTrips[d][f]}
                /\ Len(Shown) = Cardinality(Range(Shown))
                /\ \A p, q \in DOMAIN Shown :
                      p < q =>
                        IF r.cfg.sortOrder = "old-to-new"
                        THEN ~Earlier(ViewDate[Shown[q]][f], ViewDate[Shown[p]][f])
                        ELSE ~Earlier(ViewDate[Shown[p]][f], ViewDate[Shown[q]][f])
                /\ \A p \in DOMAIN Content :
                      Content[p].by = k /\ Content[p].stage = "done"

\* a second refresh, after a note was created, shows two notes in order
C6_Witness ==
    /\ Latest = 2
    /\ RanAlone(2)
    /\ inv[2].listing # inv[1].listing
    /\ inv[2].cfg.sortOrder = "old-to-new"
    /\ Shown = <<"d2", "d1">>

\* C10 as stated: when the refresh that follows a change of the pattern has
\* returned and no refresh is left in flight, the content region holds a
\* region for exactly the documents that match the new pattern, none of
\* them made by a refresh from before the change.
C10_RederivedAfterPatternChange ==
    \A k \in DOMAIN inv :
        (/\ k > 1
         /\ k = Latest
         /\ Settled
         /\ inv[k].pc = "done"
         /\ inv[k].cfg.dateFormat # inv[k - 1].cfg.dateFormat)
        => /\ Range(Shown) =
                {d \in Range(inv[k].listing) : ViewRoundTrips[d][inv[k].cfg.dateFormat]}
           /\ \A p \in DOMAIN Content : Content[p].by = k

(***************************************************************************)
(* Further properties of the filter callback (SpecMatch)                   *)
(***************************************************************************)

\* C11 as stated: for the basename and pattern of the run, the decision of
\* the filter and the date it parses do not depend on the current date: on
\* any other day the decision is the one taken, and a retained basename has
\* the same year, month and day.
C11_Deterministic ==
    matchOut.pc = "done" =>
        \A t \in Nows :
            /\ IsDateFile(matchIn.b, matchIn.p, t) = matchOut.keep
            /\ matchOut.keep =>
                 SameDay(moment(matchIn.b, matchIn.p, t),
                         moment(matchIn.b, matchIn.p, matchIn.now))

Name_2024_01_05 == <<"2", "0", "2", "4", "-", "0", "1", "-", "0", "5">>
Name_2024_1_5 == <<"2", "0", "2", "4", "-", "1", "-", "5">>
Name_notes == <<"n", "o", "t", "e", "s">>
Name_2024_01_05_extra ==
    <<"2", "0", "2", "4", "-", "0", "1", "-", "0", "5", "-", "e", "x", "t", "r", "a">>

\* C12: under YYYY-MM-DD, of "2024-01-05", "2024-1-5", "notes" and
\* "2024-01-05-extra" the filter retains "2024-01-05" and no other.
C12_PaddedExactNameOnly ==
    (/\ matchOut.pc = "done"
     /\ matchIn.p = DefaultDateFormat
     /\ matchIn.b \in {Name_2024_01_05, Name_2024_1_5, Name_notes, Name_2024_01_05_extra})
    => (matchOut.keep <=> matchIn.b = Name_2024_01_05)

\* the name with trailing characters parses to a valid date and is rejected
C12_Witness ==
    /\ matchOut.pc = "done"
    /\ matchIn.p = DefaultDateFormat
    /\ matchIn.b = Name_2024_01_05_extra
    /\ matchOut.valid
    /\ ~matchOut.keep

(***************************************************************************)
(* Further properties of the view (Spec)                                   *)
(***************************************************************************)
\* C13: a refresh that reads a pattern without a date token retains no
\* note, the note whose name is the pattern included; it returns at once
\* without an error and adds no region to the content region it emptied,
\* which is empty when no other refresh was in flight.
C13_MalformedPatternMatchesNothing ==
    \A k \in DOMAIN inv :
        inv[k].cfg.dateFormat = MalformedFormat =>
            /\ inv[k].dateFiles = <<>>
            /\ inv[k].pc = "done"
            /\ \A t \in DOMAIN regions :
                  \A p \in DOMAIN regions[t] : regions[t][p].by # k
            /\ RanAlone(k) => Content = <<>>

\* the refresh after the pattern was set to "--", on a vault holding a note
\* named "--", has emptied a content region that showed a note
C13_Witness ==
    /\ Latest = 2
    /\ inv[2].cfg.dateFormat = MalformedFormat
    /\ inv[2].caller = "settings"
    /\ \E p \in DOMAIN inv[2].listing : Basename[inv[2].listing[p]] = MalformedFormat
    /\ inv[1].pc = "done"
    /\ inv[1].result # <<>>
    /\ RanAlone(2)
    /\ Content = <<>>

\* the refresh onOpen awaits
InitialRefresh(k) == inv[k].caller = "onOpen"

RegionsOf(k) == SelectSeq(regions[inv[k].target], LAMBDA r : r.by = k)

IndexIn(seq, x) == CHOOSE i \in DOMAIN seq : seq[i] = x

\* C15: the regions of one refresh stand in the order of its sorted
\* documents; all but the last of them are fetched, rendered and have their
\* handlers; the last is the region of the document the refresh is at, and
\* it is as far as the refresh is with that document.
C15_OneDocumentAtATime ==
    \A k \in DOMAIN inv :
        LET mine == RegionsOf(k)
            r == inv[k]
        IN  /\ \A t \in DOMAIN regions :
                  t # r.target => \A p \in DOMAIN regions[t] : regions[t][p].by # k
            /\ \A p \in DOMAIN mine :
                  /\ mine[p].doc \in Range(r.dateFiles)
                  /\ p < Len(mine) => mine[p].stage = "done"
            /\ \A p, q \in DOMAIN mine :
                  p < q => IndexIn(r.dateFiles, mine[p].doc) < IndexIn(r.dateFiles, mine[q].doc)
            /\ mine # <<>> =>
                  /\ mine[Len(mine)].doc = r.dateFiles[r.i]
                  /\ r.pc = "read" => mine[Len(mine)].stage = "header"
                  /\ r.pc = "render" => mine[Len(mine)].stage = "markdown"
                  /\ r.pc = "done" => mine[Len(mine)].stage = "done"

\* a refresh of two documents awaits the read of the second, the first done
C15_Witness ==
    \E k \in DOMAIN inv :
        /\ inv[k].i = 2
        /\ inv[k].pc = "read"
        /\ Len(RegionsOf(k)) = 2
        /\ RegionsOf(k)[1].stage = "done"
        /\ RegionsOf(k)[2].stage = "header"

\* C16: a step that changes the settings stores the value and starts a save
\* and touches nothing of the view; the step that ends a save starts a
\* refresh when a view exists and none when there is none; every refresh
\* that starts filters and sorts with the settings of that moment.
C16_ChangeSavedThenRefreshed ==
    [][/\ settings' # settings =>
            /\ pendingSave' = pendingSave + 1
            /\ UNCHANGED <<attached, regions, inv>>
       /\ pendingSave' > pendingSave => settings' # settings
       /\ pendingSave' < pendingSave =>
            /\ UNCHANGED settings
            /\ IF pluginView
               THEN /\ Len(inv') = Len(inv) + 1
                    /\ inv'[Len(inv')].caller = "settings"
               ELSE UNCHANGED <<attached, regions, inv>>
       /\ Len(inv') > Len(inv) =>
            /\ inv'[Len(inv')].cfg = settings
            /\ inv'[Len(inv')].dateFiles = ViewDateFiles[files][settings]
            /\ \A p \in DOMAIN regions'[inv'[Len(inv')].target] :
                  regions'[inv'[Len(inv')].target][p].by = Len(inv')
      ]_vars

\* after a change of direction and of pattern, each saved, the refresh of
\* the second save runs with both new values
C16_Witness ==
    /\ Latest >= 2
    /\ pendingSave = 0
    /\ inv[Latest].caller = "settings"
    /\ inv[Latest].cfg = settings
    /\ inv[Latest].cfg.sortOrder # DEFAULT_SETTINGS.sortOrder
    /\ inv[Latest].cfg.dateFormat # DEFAULT_SETTINGS.dateFormat

\* the refresh of the most recent click, no settings refresh started since
LastClick(k) ==
    /\ inv[k].caller = "click"
    /\ \A j \in DOMAIN inv : j > k => inv[j].caller = "onOpen"

\* C17: the refresh of a reload click works on a content element no earlier
\* refresh works on, the container holds that element and no other, and as
\* long as no settings refresh has started since the click every region in
\* it was created by the refresh of that click, whatever the earlier
\* refreshes still in flight do.
C17_ClickDetaches ==
    \A k \in DOMAIN inv :
        LastClick(k) =>
            /\ \A j \in DOMAIN inv : j < k => inv[j].target # inv[k].target
            /\ attached = <<inv[k].target>>
            /\ \A p \in DOMAIN Content : Content[p].by = k

\* the refresh of onOpen was in flight at the click and has since finished
\* its two documents in the detached element; the container shows what the
\* refresh of the click rendered
C17_Witness ==
    /\ Latest = 2
    /\ LastClick(2)
    /\ inv[1].overlapped
    /\ inv[1].pc = "done"
    /\ Len(regions[inv[1].target]) = 2
    /\ inv[2].pc = "done"
    /\ Len(Content) = 2

\* C18 as stated: the header of every region in the content region is the
\* basename of the document the region was created for.
C18_HeaderIsBasename ==
    \A p \in DOMAIN Content : Content[p].header = Basename[Content[p].doc]

\* C19 as stated: once the view is closed no refresh starts on it and
\* nothing of its container changes.
C19_NoMutationAfterClose ==
    [][view = "closed" => UNCHANGED <<attached, regions, inv, hasHeader>>]_vars

(***************************************************************************)
(* Properties of activateView (SpecActivate)                               *)
(***************************************************************************)

\* C20 as stated: the workspace never holds two leaves of the view's type,
\* and an invocation that found a leaf of the type created none.
C20_AtMostOneLeaf ==
    /\ Cardinality(getLeavesOfType) <= 1
    /\ \A a \in DOMAIN act :
          act[a].found => \E b \in DOMAIN act : b < a /\ act[b].leaf = act[a].leaf

====
